---- MODULE Spec2Model ----
(***************************************************************************)
(* Lead-capture Cloudflare Worker of cx-portal.                            *)
(*                                                                         *)
(* The repository holds six drafts of the same request handler.  One of    *)
(* them is deployed; `variant` says which.  Each inbound request runs the  *)
(* handler up to its next `await`; the awaited calls (request.formData(),  *)
(* the siteverify fetch, KV put) return or throw in separate steps, so     *)
(* requests interleave exactly where the JavaScript runtime lets them.     *)
(*                                                                         *)
(* The browser side (script.js) submits a lead with racePatternSubmit: one *)
(* fetch per configured endpoint, each with its own abort timer, gathered  *)
(* with Promise.allSettled.  RaceSpec is the specification of one such     *)
(* submission; the primary endpoints answer as the deployed draft does.    *)
(*                                                                         *)
(* Around it, the page: the submit listener is the debounced               *)
(* handleFormSubmit (DebounceSpec follows the debounce closure against a   *)
(* clock), and FormSpec follows the invocations of handleFormSubmit: the   *)
(* validation of the form, the optimistic showSuccess timer and the        *)
(* continuation that runs when the race settles.  FairRaceSpec and         *)
(* FairFormSpec add what the browser guarantees: armed timers fire.        *)
(***************************************************************************)
EXTENDS Naturals, Integers, Sequences, FiniteSets, TLC

\* ------------------------------------------------------------------ bounds
MaxReqs == 2

\* CONFIG.edgeEndpoints.length, the number of primary endpoints configured
EdgeEndpoints == 2

Reqs == 1..MaxReqs

\* ------------------------------------------------------------ input domains
Variants ==
    {"config_example", "worker_cors_complete", "part_000",
     "backup_worker", "worker_fix_guide", "debug_worker"}

\* module-style workers: env bindings, KV put, no try/catch
EnvWorkers == {"config_example", "part_000", "backup_worker"}

\* guide drafts: try/catch, no verification call, KV put left as a TODO
GuideWorkers == {"worker_fix_guide", "debug_worker"}

Methods == {"OPTIONS", "POST", "GET", "PUT"}
Emails == {"alice@example.com", "bob@example.com"}
Companies == {"null", "Acme"}
Tokens == {"null", "tok"}
ParseErrors == {"Failed to parse body as FormData"}
FetchErrors == {"Network connection lost"}
PutErrors == {"KV PUT failed"}
ErrorCodes == {"invalid-input-response", "timeout-or-duplicate"}

NoId == ""

\* -------------------------------------------------------------- responses
CorsAllowHeaders ==
    {"Content-Type", "X-CX-Frontend-Signature", "X-CX-Request-ID",
     "X-CX-Timestamp", "X-CX-Origin", "X-Edge-Node", "Cache-Control"}

\* new Response(body, {status, headers}); absent parts are "" / {} / NoId
Response(status, bodyKind, text, success, id, error, details, allowOrigin, allowMethods, allowHeaders, contentType, maxAge) ==
    [status |-> status, bodyKind |-> bodyKind, text |-> text,
     success |-> success, id |-> id, error |-> error, details |-> details,
     allowOrigin |-> allowOrigin, allowMethods |-> allowMethods,
     allowHeaders |-> allowHeaders, contentType |-> contentType,
     maxAge |-> maxAge]

NoResponse ==
    Response(0, "none", "", FALSE, NoId, "", "", "", "", {}, "", "")

\* JSON body with only the permissive origin header (module-style workers)
JsonOriginOnly(status, success, id, error, details) ==
    Response(status, "json", "", success, id, error, details,
             "*", "", {}, "application/json", "")

jsonResponse(status, success, id, error) ==
    Response(status, "json", "", success, id, error, "",
             "*", "POST, OPTIONS", CorsAllowHeaders, "application/json", "")

\* a preflight answered 200 instead of 204
handleOptions_status200(v) ==
    Response(200, "null", "", FALSE, NoId, "", "",
             "*", "POST, OPTIONS", CorsAllowHeaders, "",
             IF v \in {"worker_cors_complete"} \cup GuideWorkers
             THEN "86400" ELSE "")

handleOptions(v) ==
    Response(204, "null", "", FALSE, NoId, "", "",
             "*", "POST, OPTIONS", CorsAllowHeaders, "",
             IF v \in {"worker_cors_complete"} \cup GuideWorkers
             THEN "86400" ELSE "")

MethodNotAllowed(v) ==
    IF v \in {"config_example", "part_000"}
    THEN Response(405, "text", "Method Not Allowed", FALSE, NoId, "", "",
                  "*", "", {}, "", "")
    ELSE IF v = "backup_worker"
    THEN Response(405, "text", "Method Not Allowed", FALSE, NoId, "", "",
                  "", "", {}, "", "")
    ELSE Response(405, "text", "Method not allowed", FALSE, NoId, "", "",
                  "", "", {}, "", "")

MissingToken == jsonResponse(400, FALSE, NoId, "Missing Turnstile token")

VerificationFailed(v, verification) ==
    CASE v = "config_example" ->
           JsonOriginOnly(403, FALSE, NoId, "Turnstile verification failed", "")
      [] v = "part_000" ->
           JsonOriginOnly(403, FALSE, NoId, "Turnstile verification failed",
                          verification.code)
      [] v = "backup_worker" ->
           Response(403, "text", "Bot detected", FALSE, NoId, "", "",
                    "", "", {}, "", "")
      [] OTHER ->
           jsonResponse(403, FALSE, NoId, "Invalid Turnstile token")

Success(v, id) ==
    IF v \in EnvWorkers
    THEN JsonOriginOnly(200, TRUE, id, "", "")
    ELSE jsonResponse(200, TRUE, id, "")

\* the catch block of the drafts that have one
Caught(v, message) ==
    IF v = "worker_cors_complete"
    THEN jsonResponse(500, FALSE, NoId, "Internal server error")
    ELSE JsonOriginOnly(500, FALSE, NoId, message, "")

HasTryCatch(v) == v \notin EnvWorkers

\* ------------------------------------------------------------------- state
VARIABLES
    variant,       \* the deployed draft
    pc,            \* r -> "idle" | "formData" | "verify" | "put" | "done"
    request,       \* r -> [method, email, company, token]
    verification,  \* r -> result of the siteverify call, or NotVerified
    leadId,        \* r -> crypto.randomUUID() of the request, NoId before
    pending,       \* r -> [key, value] handed to KV put
    response,      \* r -> the Response the handler returned
    responses,     \* r -> number of responses returned
    thrown,        \* r -> message of the exception that left the handler
    fault,         \* r -> the awaited call that threw, "" if none did
    calls,         \* r -> counts of awaited calls: formData, verify, put
                   \*      issued, and stored = puts that resolved
    store,         \* the KV namespace: key -> record
    uuids,         \* number of identifiers handed out so far
    now            \* clock read by new Date()

workerVars == <<variant, pc, request, verification, leadId, pending, response,
                responses, thrown, fault, calls, store, uuids, now>>

\* state of one racePatternSubmit call in the browser
VARIABLES
    race,          \* "idle" | "waiting" | "resolved" | "rejected"
    requests,      \* index -> the async request of that endpoint
    settledOrder,  \* indices of the requests in the order they settled
    raceResult     \* the value racePatternSubmit resolved with

clientVars == <<race, requests, settledOrder, raceResult>>

\* state of the page around the submission: the debounced submit listener
VARIABLES
    clock,         \* Date.now(), in milliseconds
    lastCall,      \* debounce: time of the last execution of func
    timeoutId,     \* debounce: the pending timer, [armed, due]
    executions,    \* the executions of func in order: [at, from]
    debounceCalls  \* number of calls of the debounced function so far

debounceVars == <<clock, lastCall, timeoutId, executions, debounceCalls>>

\* the form, the UI controller and the invocations of handleFormSubmit
VARIABLES
    UI,              \* [isSubmitting, formHidden, successShown, refId,
                     \*  error, queued]
    turnstileToken,  \* window.turnstileToken
    formData,        \* the fields read by the latest invocation
    submits,         \* invocation -> the state of that handleFormSubmit
    invocations      \* number of invocations of handleFormSubmit so far

formVars == <<UI, turnstileToken, formData, submits, invocations>>

pageVars == <<debounceVars, formVars>>

vars == <<workerVars, clientVars, pageVars>>

\* CONFIG.debounceDelay, in milliseconds
debounceDelay == 1000

\* calls of the debounced function in one behaviour
MaxCalls == 3

\* the clock is followed for this many debounce delays
MaxDelays == 4

\* `let timeoutId` with no timer behind it
NoTimer == [armed |-> FALSE, due |-> 0]

\* debounce(func, delay) has just returned executedFunction; Date.now() is
\* far more than `delay` past the epoch that `lastCall = 0` stands for
DebounceInit ==
    /\ clock = debounceDelay
    /\ lastCall = 0
    /\ timeoutId = NoTimer
    /\ executions = << >>
    /\ debounceCalls = 0

\* invocations of handleFormSubmit in one behaviour
MaxSubmits == 2

Submits == 1..MaxSubmits

\* window.turnstileToken before the widget called back: undefined
NoToken == [prefix |-> "", length |-> 0]

\* an email field: its text, whether emailRegex matches it, and its domain
Email(text, wellFormed, domain) ==
    [text |-> text, wellFormed |-> wellFormed, domain |-> domain]

\* the other fields are sequences of characters; a missing field reads as
\* empty
NoFields ==
    [honeypot |-> << >>, email |-> Email("", FALSE, ""), company |-> << >>]

\* an invocation that has not happened
NoSubmit ==
    [pc |-> "none", referenceId |-> "", timer |-> "none", sent |-> 0,
     outcome |-> "", resultId |-> NoId, serverIds |-> {}]

\* the page has loaded: `const UI = {... isSubmitting: false ...}`
FormInit ==
    /\ UI = [isSubmitting |-> FALSE, formHidden |-> FALSE,
             successShown |-> FALSE, refId |-> "", error |-> "",
             queued |-> 0]
    /\ turnstileToken = NoToken
    /\ formData = NoFields
    /\ submits = [k \in Submits |-> NoSubmit]
    /\ invocations = 0

PageInit == DebounceInit /\ FormInit

\* [...CONFIG.edgeEndpoints, CONFIG.fallbackEndpoint], by index
allEndpoints == 0..EdgeEndpoints

\* `index === CONFIG.edgeEndpoints.length`
isFallback(index) == index = EdgeEndpoints

\* the parsed body of an endpoint's answer; absent members are "" / FALSE
Data(ok, success, id, signature, raw) ==
    [ok |-> ok, success |-> success, id |-> id, signature |-> signature,
     raw |-> raw]

NoData == Data(FALSE, FALSE, NoId, "", "")

\* what the async function of one endpoint returns
Fulfilled(index, data) ==
    [success |-> TRUE, endpoint |-> index,
     endpointType |-> IF isFallback(index) THEN "fallback" ELSE "primary",
     data |-> data, error |-> "", requestId |-> "req_1"]

Failed(index, message) ==
    [success |-> FALSE, endpoint |-> index, endpointType |-> "",
     data |-> NoData, error |-> message, requestId |-> "req_1"]

NoValue ==
    [success |-> FALSE, endpoint |-> 0 - 1, endpointType |-> "",
     data |-> NoData, error |-> "", requestId |-> ""]

\* one element of `requests` before racePatternSubmit is called
NoFetch ==
    [pc |-> "unsent", sent |-> 0, timer |-> "none", response |-> NoResponse,
     value |-> NoValue]

ClientInit ==
    /\ race = "idle"
    /\ requests = [i \in allEndpoints |-> NoFetch]
    /\ settledOrder = << >>
    /\ raceResult = NoValue

NotVerified == [called |-> FALSE, success |-> FALSE, code |-> ""]
NoRequest == [method |-> "", email |-> "", company |-> "", token |-> ""]
NoPending == [key |-> "", value |-> [id |-> NoId]]
NoCalls == [formData |-> 0, verify |-> 0, put |-> 0, stored |-> 0]

Init ==
    /\ variant \in Variants
    /\ pc = [r \in Reqs |-> "idle"]
    /\ request = [r \in Reqs |-> NoRequest]
    /\ verification = [r \in Reqs |-> NotVerified]
    /\ leadId = [r \in Reqs |-> NoId]
    /\ pending = [r \in Reqs |-> NoPending]
    /\ response = [r \in Reqs |-> NoResponse]
    /\ responses = [r \in Reqs |-> 0]
    /\ thrown = [r \in Reqs |-> ""]
    /\ fault = [r \in Reqs |-> ""]
    /\ calls = [r \in Reqs |-> NoCalls]
    /\ store = << >>
    /\ uuids = 0
    /\ now = 0
    /\ ClientInit
    /\ PageInit

\* ------------------------------------------------------------- primitives
\* one identifier reused for every lead
randomUUID_fixed(n) == "uuid-0"

\* crypto.randomUUID(): the n-th identifier handed out, never repeated
randomUUID(n) == "uuid-" \o ToString(n)

\* every draft keyed by the submitter's email
StorageKey_byEmail(v, id, email) == "lead:" \o email

\* storage key of the drafts that write to KV
StorageKey(v, id, email) ==
    IF v = "config_example" THEN id ELSE "lead:" \o email

\* the record stored without the generated identifier
LeadRecord_noId(v, req, id, timestamp) ==
    IF v = "config_example"
    THEN [email |-> req.email, company |-> req.company,
          timestamp |-> timestamp, id |-> NoId]
    ELSE [email |-> req.email, timestamp |-> timestamp, id |-> NoId]

\* the object handed to JSON.stringify for the KV value
LeadRecord(v, req, id, timestamp) ==
    IF v = "config_example"
    THEN [email |-> req.email, company |-> req.company,
          timestamp |-> timestamp, id |-> id]
    ELSE [email |-> req.email, timestamp |-> timestamp, id |-> id]

\* env.WAITLIST_STORAGE.put(key, value)
Put(kv, key, value) == (key :> value) @@ kv

\* what siteverify can answer for a token: it never accepts a missing one
VerifyOutcomes(token) ==
    IF token = "null"
    THEN {[called |-> TRUE, success |-> FALSE, code |-> "missing-input-response"]}
    ELSE {[called |-> TRUE, success |-> TRUE, code |-> ""]}
         \cup {[called |-> TRUE, success |-> FALSE, code |-> c] : c \in ErrorCodes}

\* formData.get("company") is read by config.example.js only
CompanyField(v) == IF v = "config_example" THEN Companies ELSE {""}

IsPreflight(method) == method = "OPTIONS"
\* every method but OPTIONS taken for a submission
IsPost_notOptions(method) == method # "OPTIONS"

IsPost(method) == method = "POST"

\* `if (!turnstileToken)` of worker-cors-complete.js
TokenMissing(token) == token = "null"

\* the success flag of the result never looked at
VerificationRejected_ignored(result) == FALSE

\* `if (!verification.success)`
VerificationRejected(result) == ~result.success

\* ------------------------------------------------------- handler plumbing
\* `return new Response(...)`: the handler's promise resolves
Return(r, resp) ==
    /\ pc' = [pc EXCEPT ![r] = "done"]
    /\ response' = [response EXCEPT ![r] = resp]
    /\ responses' = [responses EXCEPT ![r] = @ + 1]
    /\ UNCHANGED thrown

\* the failed call awaited again instead of ending the request
Throw_retry(r, call, message) ==
    /\ fault' = [fault EXCEPT ![r] = call]
    /\ UNCHANGED <<pc, response, responses, thrown>>

\* an exception inside the handler: caught where the draft has a try/catch,
\* otherwise the handler's promise rejects and it returns no Response
Throw(r, call, message) ==
    /\ fault' = [fault EXCEPT ![r] = call]
    /\ IF HasTryCatch(variant)
       THEN Return(r, Caught(variant, message))
       ELSE /\ pc' = [pc EXCEPT ![r] = "done"]
            /\ thrown' = [thrown EXCEPT ![r] = message]
            /\ UNCHANGED <<response, responses>>

\* ----------------------------------------------------------------- actions
\* The runtime invokes the handler; it runs to its first await.
HandleRequest(r) ==
    /\ pc[r] = "idle"
    /\ UNCHANGED <<clientVars, pageVars>>
    /\ \E m \in Methods :
         /\ request' = [request EXCEPT ![r].method = m]
         /\ IF IsPreflight(m)
            THEN /\ Return(r, handleOptions(variant))
                 /\ UNCHANGED calls
            ELSE IF IsPost(m)
            THEN /\ pc' = [pc EXCEPT ![r] = "formData"]
                 /\ calls' = [calls EXCEPT ![r].formData = @ + 1]
                 /\ UNCHANGED <<response, responses, thrown>>
            ELSE /\ Return(r, MethodNotAllowed(variant))
                 /\ UNCHANGED calls
    /\ UNCHANGED <<variant, verification, leadId, pending, fault, store,
                   uuids, now>>

\* `await request.formData()` resolves and the fields are read with
\* formData.get(); the handler runs to its next await.
FormDataReturns(r) ==
    /\ pc[r] = "formData"
    /\ UNCHANGED <<clientVars, pageVars>>
    /\ \E e \in Emails, c \in CompanyField(variant), t \in Tokens :
         /\ request' = [request EXCEPT ![r].email = e, ![r].company = c,
                                       ![r].token = t]
         /\ IF variant \in GuideWorkers
            THEN /\ uuids' = uuids + 1
                 /\ leadId' = [leadId EXCEPT ![r] = randomUUID(uuids + 1)]
                 /\ Return(r, Success(variant, randomUUID(uuids + 1)))
                 /\ UNCHANGED calls
            ELSE IF variant = "worker_cors_complete" /\ TokenMissing(t)
            THEN /\ Return(r, MissingToken)
                 /\ UNCHANGED <<uuids, leadId, calls>>
            ELSE /\ pc' = [pc EXCEPT ![r] = "verify"]
                 /\ calls' = [calls EXCEPT ![r].verify = @ + 1]
                 /\ UNCHANGED <<uuids, leadId, response, responses, thrown>>
    /\ UNCHANGED <<variant, verification, pending, fault, store, now>>

\* `await request.formData()` rejects.
FormDataThrows(r) ==
    /\ pc[r] = "formData"
    /\ UNCHANGED <<clientVars, pageVars>>
    /\ \E message \in ParseErrors : Throw(r, "formData", message)
    /\ UNCHANGED <<variant, request, verification, leadId, pending, calls,
                   store, uuids, now>>

\* the KV put issued while the siteverify call is still outstanding
VerifyReturns_putFirst(r) ==
    /\ pc[r] = "verify"
    /\ UNCHANGED <<clientVars, pageVars>>
    /\ variant \in EnvWorkers
    /\ uuids' = uuids + 1
    /\ leadId' = [leadId EXCEPT ![r] = randomUUID(uuids + 1)]
    /\ pending' = [pending EXCEPT ![r] =
          [key |-> StorageKey(variant, randomUUID(uuids + 1), request[r].email),
           value |-> LeadRecord(variant, request[r], randomUUID(uuids + 1), now)]]
    /\ pc' = [pc EXCEPT ![r] = "put"]
    /\ calls' = [calls EXCEPT ![r].put = @ + 1]
    /\ UNCHANGED <<variant, request, verification, response, responses,
                   thrown, fault, store, now>>

\* The siteverify fetch and `.json()` resolve with a result object.
VerifyReturns(r) ==
    /\ pc[r] = "verify"
    /\ UNCHANGED <<clientVars, pageVars>>
    /\ \E result \in VerifyOutcomes(request[r].token), t \in {now, now + 1} :
         /\ verification' = [verification EXCEPT ![r] = result]
         /\ IF VerificationRejected(result)
            THEN /\ Return(r, VerificationFailed(variant, result))
                 /\ UNCHANGED <<leadId, pending, calls, uuids, now>>
            ELSE /\ uuids' = uuids + 1
                 /\ leadId' = [leadId EXCEPT ![r] = randomUUID(uuids + 1)]
                 /\ IF variant \in EnvWorkers
                    THEN /\ now' = t
                         /\ pending' = [pending EXCEPT ![r] =
                              [key |-> StorageKey(variant, randomUUID(uuids + 1),
                                                  request[r].email),
                               value |-> LeadRecord(variant, request[r],
                                                    randomUUID(uuids + 1), t)]]
                         /\ pc' = [pc EXCEPT ![r] = "put"]
                         /\ calls' = [calls EXCEPT ![r].put = @ + 1]
                         /\ UNCHANGED <<response, responses, thrown>>
                    ELSE /\ Return(r, Success(variant, randomUUID(uuids + 1)))
                         /\ UNCHANGED <<pending, calls, now>>
    /\ UNCHANGED <<variant, request, fault, store>>

\* The siteverify fetch rejects, or its body is not JSON.
VerifyThrows(r) ==
    /\ pc[r] = "verify"
    /\ UNCHANGED <<clientVars, pageVars>>
    /\ \E message \in FetchErrors : Throw(r, "verify", message)
    /\ UNCHANGED <<variant, request, verification, leadId, pending, calls,
                   store, uuids, now>>

\* `await env.WAITLIST_STORAGE.put(...)` resolves: the value is stored.
PutReturns(r) ==
    /\ pc[r] = "put"
    /\ UNCHANGED <<clientVars, pageVars>>
    /\ store' = Put(store, pending[r].key, pending[r].value)
    /\ calls' = [calls EXCEPT ![r].stored = @ + 1]
    /\ Return(r, Success(variant, leadId[r]))
    /\ UNCHANGED <<variant, request, verification, leadId, pending, fault,
                   uuids, now>>

\* `await env.WAITLIST_STORAGE.put(...)` rejects: nothing is stored.
PutThrows(r) ==
    /\ pc[r] = "put"
    /\ UNCHANGED <<clientVars, pageVars>>
    /\ \E message \in PutErrors : Throw(r, "put", message)
    /\ UNCHANGED <<variant, request, verification, leadId, pending, calls,
                   store, uuids, now>>

Next ==
    \E r \in Reqs :
        \/ HandleRequest(r)
        \/ FormDataReturns(r)
        \/ FormDataThrows(r)
        \/ VerifyReturns(r)
        \/ VerifyThrows(r)
        \/ PutReturns(r)
        \/ PutThrows(r)

Spec == Init /\ [][Next]_vars

\* ------------------------------------------------------ racePatternSubmit
frontendSignature == "CX-FE-2025-V1"

\* the `signature` member an answer may carry
Signatures == {"", frontendSignature, "forged"}

\* `response.ok`
Ok(resp) == resp.status \in 200..299

\* answers of an endpoint: a primary answers a POST as the deployed draft
\* does, or as another edge provider would (empty or non-JSON 200 body);
\* the fallback is Formspree
EndpointResponses(v, index) ==
    IF isFallback(index)
    THEN {Response(200, "text", "OK", FALSE, NoId, "", "", "*", "", {}, "", ""),
          Response(422, "text", "error", FALSE, NoId, "", "", "*", "", {}, "", "")}
    ELSE {Success(v, randomUUID(1)),
          VerificationFailed(v, [called |-> TRUE, success |-> FALSE,
                                 code |-> "invalid-input-response"]),
          Response(200, "null", "", FALSE, NoId, "", "", "*", "", {}, "", ""),
          Response(200, "text", "OK", FALSE, NoId, "", "", "*", "", {}, "", "")}

\* `responseText ? JSON.parse(responseText) : { ok: true }`, with the catch
\* that keeps an unparsable text as `raw`
ParseData(resp, signature) ==
    IF resp.bodyKind = "null" THEN Data(TRUE, FALSE, NoId, "", "")
    ELSE IF resp.bodyKind = "json"
    THEN Data(FALSE, resp.success, resp.id, signature, "")
    ELSE Data(TRUE, FALSE, NoId, "", resp.text)

\* `data.signature && data.signature !== CONFIG.frontendSignature`
BadSignature(data) == data.signature # "" /\ data.signature # frontendSignature

\* results.find(...) over the primaries picks the last success
primarySuccess_last(reqs) ==
    {i \in allEndpoints :
        /\ ~isFallback(i) /\ reqs[i].value.success
        /\ \A j \in allEndpoints :
              (~isFallback(j) /\ reqs[j].value.success) => j <= i}

\* results.find(fulfilled && success && idx < edgeEndpoints.length): the
\* successful primary of lowest index, as a set of at most one index
primarySuccess(reqs) ==
    {i \in allEndpoints :
        /\ ~isFallback(i) /\ reqs[i].value.success
        /\ \A j \in allEndpoints :
              (~isFallback(j) /\ reqs[j].value.success) => i <= j}

\* results.find(fulfilled && success && idx === edgeEndpoints.length)
fallbackSuccess(reqs) ==
    {i \in allEndpoints : isFallback(i) /\ reqs[i].value.success}

\* the fallback's success preferred over a primary's
RaceOutcome_fallbackFirst(reqs) ==
    IF fallbackSuccess(reqs) # {}
    THEN [state |-> "resolved",
          value |-> reqs[CHOOSE i \in fallbackSuccess(reqs) : TRUE].value]
    ELSE IF primarySuccess(reqs) # {}
    THEN [state |-> "resolved",
          value |-> reqs[CHOOSE i \in primarySuccess(reqs) : TRUE].value]
    ELSE [state |-> "rejected", value |-> NoValue]

\* lines 414-437: what racePatternSubmit returns or throws
RaceOutcome(reqs) ==
    IF primarySuccess(reqs) # {}
    THEN [state |-> "resolved",
          value |-> reqs[CHOOSE i \in primarySuccess(reqs) : TRUE].value]
    ELSE IF fallbackSuccess(reqs) # {}
    THEN [state |-> "resolved",
          value |-> reqs[CHOOSE i \in fallbackSuccess(reqs) : TRUE].value]
    ELSE [state |-> "rejected", value |-> NoValue]

\* the gathering promise settled by the first request to settle
allSettled_any(reqs) == \E i \in allEndpoints : reqs[i].pc = "settled"

\* Promise.allSettled(requests) has settled
allSettled(reqs) == \A i \in allEndpoints : reqs[i].pc = "settled"

\* the async function of endpoint i returns `value`
SettleRequest(i, timer, value) ==
    /\ requests' = [requests EXCEPT ![i].pc = "settled", ![i].timer = timer,
                                    ![i].value = value]
    /\ settledOrder' = Append(settledOrder, i)

\* racePatternSubmit(payload) is called: every endpoint's async function runs
\* to its `await fetch`, arming its abort timer on the way.
RacePatternSubmit ==
    /\ race = "idle"
    /\ race' = "waiting"
    /\ requests' = [i \in allEndpoints |->
          [requests[i] EXCEPT !.pc = "fetch", !.sent = @ + 1,
                              !.timer = "armed"]]
    /\ UNCHANGED <<settledOrder, raceResult, workerVars, pageVars>>

\* fetch(endpoint) resolves with a Response; the timer is cleared.
FetchResolves(i) ==
    /\ requests[i].pc = "fetch"
    /\ \E resp \in EndpointResponses(variant, i) :
         IF ~Ok(resp)
         THEN SettleRequest(i, "cleared",
                            Failed(i, "HTTP " \o ToString(resp.status)))
         ELSE IF isFallback(i)
         THEN SettleRequest(i, "cleared",
                            Fulfilled(i, Data(TRUE, FALSE, NoId, "", "")))
         ELSE /\ requests' = [requests EXCEPT ![i].pc = "text",
                                 ![i].timer = "cleared", ![i].response = resp]
              /\ UNCHANGED settledOrder
    /\ UNCHANGED <<race, raceResult, workerVars, pageVars>>

\* fetch(endpoint) rejects: network or CORS failure.
FetchRejects(i) ==
    /\ requests[i].pc = "fetch"
    /\ SettleRequest(i, "cleared", Failed(i, "Failed to fetch"))
    /\ UNCHANGED <<race, raceResult, workerVars, pageVars>>

\* CONFIG.requestTimeout elapses before fetch answered: controller.abort()
\* makes the fetch reject.
TimeoutAborts(i) ==
    /\ requests[i].pc = "fetch"
    /\ requests[i].timer = "armed"
    /\ SettleRequest(i, "fired", Failed(i, "The operation was aborted"))
    /\ UNCHANGED <<race, raceResult, workerVars, pageVars>>

\* response.text() resolves; the body is parsed and its signature checked.
TextResolves(i) ==
    /\ requests[i].pc = "text"
    /\ \E signature \in Signatures :
         IF BadSignature(ParseData(requests[i].response, signature))
         THEN SettleRequest(i, requests[i].timer,
                            Failed(i, "Invalid response signature"))
         ELSE SettleRequest(i, requests[i].timer,
                Fulfilled(i, ParseData(requests[i].response, signature)))
    /\ UNCHANGED <<race, raceResult, workerVars, pageVars>>

\* response.text() rejects: the connection dropped while reading the body.
TextRejects(i) ==
    /\ requests[i].pc = "text"
    /\ SettleRequest(i, requests[i].timer, Failed(i, "Failed to fetch"))
    /\ UNCHANGED <<race, raceResult, workerVars, pageVars>>

\* `await Promise.allSettled(requests)` resumes racePatternSubmit.
RaceSettles ==
    /\ race = "waiting"
    /\ allSettled(requests)
    /\ race' = RaceOutcome(requests).state
    /\ raceResult' = RaceOutcome(requests).value
    /\ UNCHANGED <<requests, settledOrder, workerVars, pageVars>>

RaceNext ==
    \/ RacePatternSubmit
    \/ RaceSettles
    \/ \E i \in allEndpoints :
          \/ FetchResolves(i)
          \/ FetchRejects(i)
          \/ TimeoutAborts(i)
          \/ TextResolves(i)
          \/ TextRejects(i)

\* the drafts behind the primary endpoints: the browser reads status and
\* body only, so one draft of each answer shape is enough
RaceVariants == {"config_example", "worker_cors_complete"}

RaceInit == Init /\ variant \in RaceVariants

RaceSpec == RaceInit /\ [][RaceNext]_vars

\* ------------------------------------------------------------ vocabulary
Done(r) == pc[r] = "done"
Responded(r) == responses[r] > 0
IsPostRequest(r) == request[r].method = "POST"
Accepted(r) == verification[r].called /\ verification[r].success
Rejected(r) == verification[r].called /\ ~verification[r].success

\* keys under which the store holds the record of request r
RecordKeys(r) ==
    {k \in DOMAIN store : leadId[r] # NoId /\ store[k].id = leadId[r]}
RecordPresent(r) == RecordKeys(r) # {}

JsonFailure(resp, status) ==
    /\ resp.status = status
    /\ resp.bodyKind = "json"
    /\ resp.success = FALSE

HasAllCorsHeaders(resp) ==
    /\ resp.allowOrigin = "*"
    /\ resp.allowMethods = "POST, OPTIONS"
    /\ resp.allowHeaders = CorsAllowHeaders

NoSideEffects(r) ==
    /\ calls[r].verify = 0
    /\ calls[r].put = 0
    /\ calls[r].stored = 0
    /\ ~RecordPresent(r)

\* ------------------------------------------------------------------ claims

\* C1: every POST whose token the verification service accepted ends with a
\* 200 response whose JSON body has success = true and a non-empty id, and
\* the request wrote exactly one record, carrying the submitted email.
C1_AcceptedPostStoredAndAcknowledged ==
    \A r \in Reqs :
        (Done(r) /\ IsPostRequest(r) /\ Accepted(r)) =>
            /\ response[r].status = 200
            /\ response[r].bodyKind = "json"
            /\ response[r].success = TRUE
            /\ response[r].id # NoId
            /\ calls[r].stored = 1
            /\ pending[r].value.email = request[r].email

\* C2: every POST whose token the verification service rejected ends with a
\* 403 response whose JSON body has success = false, and wrote no record.
C2_RejectedPostGets403Json ==
    \A r \in Reqs :
        (Done(r) /\ IsPostRequest(r) /\ Rejected(r)) =>
            /\ JsonFailure(response[r], 403)
            /\ calls[r].put = 0
            /\ calls[r].stored = 0

C4_VerifyThrowGets500 ==
    \A r \in Reqs :
        (Done(r) /\ fault[r] = "verify") =>
            /\ JsonFailure(response[r], 500)
            /\ calls[r].stored = 0
            /\ thrown[r] = ""

\* C5: a POST whose form parsing or store write threw ends with a 500
\* response with JSON body {success: false, error: <message>}; the exception
\* does not propagate.
C5_ParseOrPutThrowGets500 ==
    \A r \in Reqs :
        (Done(r) /\ fault[r] \in {"formData", "put"}) =>
            /\ JsonFailure(response[r], 500)
            /\ response[r].error # ""
            /\ thrown[r] = ""

\* C6: every invocation of the handler that has completed returned exactly
\* one HTTP response, whatever the method and whichever awaited call threw.
C6_CompletedMeansOneResponse ==
    \A r \in Reqs : Done(r) => responses[r] = 1

\* C7: every OPTIONS request is answered 204 with an empty body and the
\* cross-origin headers, without form parsing, verification call or store
\* write.
C7_PreflightIs204WithoutSideEffects ==
    \A r \in Reqs :
        (pc[r] # "idle" /\ request[r].method = "OPTIONS") =>
            /\ Done(r)
            /\ responses[r] = 1
            /\ response[r].status = 204
            /\ response[r].bodyKind = "null"
            /\ HasAllCorsHeaders(response[r])
            /\ calls[r].formData = 0
            /\ NoSideEffects(r)

\* an OPTIONS request has been answered
C7_Witness ==
    \E r \in Reqs : Done(r) /\ request[r].method = "OPTIONS" /\ Responded(r)

\* C8: every request whose method is neither OPTIONS nor POST is answered
\* 405, without verification call or store write.
C8_OtherMethodsGet405 ==
    \A r \in Reqs :
        (pc[r] # "idle" /\ request[r].method \notin {"OPTIONS", "POST"}) =>
            /\ Done(r)
            /\ responses[r] = 1
            /\ response[r].status = 405
            /\ NoSideEffects(r)

\* a GET request has been answered
C8_Witness ==
    \E r \in Reqs : Done(r) /\ request[r].method = "GET" /\ Responded(r)

\* C9: every error response (status 405, 403, 400 or 500) carries
\* Access-Control-Allow-Origin: *.
C9_ErrorResponsesCarryAllowOrigin ==
    \A r \in Reqs :
        (Responded(r) /\ response[r].status \in {405, 403, 400, 500}) =>
            response[r].allowOrigin = "*"

\* C10: every response, whatever its status, carries Allow-Origin '*',
\* Allow-Methods 'POST, OPTIONS' and Allow-Headers listing Content-Type plus
\* the six custom headers.
C10_EveryResponseCarriesAllCorsHeaders ==
    \A r \in Reqs : Responded(r) => HasAllCorsHeaders(response[r])

C12_FailureBodiesAreGeneric ==
    /\ \A r \in Reqs :
          (Responded(r) /\ response[r].status \in {403, 500}) =>
              /\ response[r].details = ""
              /\ response[r].error
                    \notin ParseErrors \cup FetchErrors \cup PutErrors
    /\ \A r1, r2 \in Reqs :
          (/\ Responded(r1) /\ Responded(r2)
           /\ response[r1].status \in {403, 500}
           /\ response[r1].status = response[r2].status) =>
              response[r1] = response[r2]

\* the siteverify call of request r is outstanding
VerifyInFlight(r) ==
    calls[r].verify = 1 /\ ~verification[r].called /\ fault[r] # "verify"

\* the KV put of request r is outstanding
PutInFlight(r) ==
    calls[r].put > calls[r].stored /\ fault[r] # "put"

\* C13: within one POST the store write is issued only after the
\* verification call returned its result, and the two external calls are
\* never in flight at the same time.
C13_PutOnlyAfterVerifyReturned ==
    \A r \in Reqs :
        /\ calls[r].put > 0 => verification[r].called
        /\ ~(VerifyInFlight(r) /\ PutInFlight(r))

\* a store put is in flight, after the verification call returned
C13_Witness ==
    \E r \in Reqs : PutInFlight(r) /\ verification[r].called

\* drafts whose storage key is `lead:${email}`
EmailKeyed == {"part_000", "backup_worker"}

SuccessfulSubmission(r) ==
    Responded(r) /\ response[r].status = 200 /\ response[r].success

\* C15: any two successful submissions, two with the same email included,
\* are assigned distinct identifiers.
C15_DistinctIdentifiers ==
    \A r1, r2 \in Reqs :
        (r1 # r2 /\ SuccessfulSubmission(r1) /\ SuccessfulSubmission(r2)) =>
            /\ response[r1].id # response[r2].id
            /\ leadId[r1] # leadId[r2]

\* two submissions with the same email have both been acknowledged
C15_Witness ==
    \E r1, r2 \in Reqs :
        /\ r1 # r2
        /\ SuccessfulSubmission(r1) /\ SuccessfulSubmission(r2)
        /\ request[r1].email = request[r2].email

\* C16: on a successful POST the id of the 200 response body equals the id
\* field of the record the same request wrote to the store.
C16_ResponseIdIsRecordId ==
    \A r \in Reqs :
        (SuccessfulSubmission(r) /\ calls[r].stored = 1) =>
            /\ response[r].id # NoId
            /\ response[r].id = pending[r].value.id

\* a request has written its record and been acknowledged
C16_Witness ==
    \E r \in Reqs : SuccessfulSubmission(r) /\ calls[r].stored = 1

\* C17: a POST with a missing verification token or a malformed form body is
\* answered with a 4xx status.
C17_MissingTokenOrBadBodyGets4xx ==
    \A r \in Reqs :
        (/\ Done(r) /\ IsPostRequest(r)
         /\ \/ fault[r] = "formData"
            \/ (fault[r] = "" /\ request[r].token = "null")) =>
            /\ Responded(r)
            /\ response[r].status \in 400..499

\* ----------------------------------------------- claims on the browser side
Succeeded(i) == requests[i].pc = "settled" /\ requests[i].value.success
RaceOver == race \in {"resolved", "rejected"}
SentToEveryEndpoint == \A i \in allEndpoints : requests[i].sent = 1

\* the request that was the first to settle with a success
FirstSucceeded ==
    {settledOrder[n] : n \in
        {m \in 1..Len(settledOrder) :
            /\ Succeeded(settledOrder[m])
            /\ \A l \in 1..(m - 1) : ~Succeeded(settledOrder[l])}}

\* the successful request of lowest index in [...edgeEndpoints, fallback]
LowestSucceeded ==
    {i \in allEndpoints :
        Succeeded(i) /\ \A j \in allEndpoints : Succeeded(j) => i <= j}

C19_PrimaryThenFallbackThenThrow ==
    RaceOver =>
        /\ (\E i \in allEndpoints : ~isFallback(i) /\ Succeeded(i)) =>
              /\ race = "resolved"
              /\ raceResult.endpointType = "primary"
              /\ \E i \in allEndpoints :
                    ~isFallback(i) /\ Succeeded(i)
                    /\ raceResult = requests[i].value
        /\ (race = "resolved" /\ raceResult.endpointType # "primary") =>
              /\ \A i \in allEndpoints : ~isFallback(i) => ~Succeeded(i)
              /\ \E i \in allEndpoints :
                    isFallback(i) /\ Succeeded(i)
                    /\ raceResult = requests[i].value
        /\ race = "rejected" <=> (\A i \in allEndpoints : ~Succeeded(i))

\* every primary failed and the fallback's result was returned
C19_Witness ==
    /\ race = "resolved"
    /\ raceResult.endpointType = "fallback"
    /\ \A i \in allEndpoints : ~isFallback(i) => ~Succeeded(i)

\* C20: racePatternSubmit sends exactly one request to every configured
\* endpoint and settles only after every one of those requests has settled.
C20_OneRequestEachAndWaitsForAll ==
    /\ \A i \in allEndpoints : requests[i].sent <= 1
    /\ race # "idle" => SentToEveryEndpoint
    /\ RaceOver => \A i \in allEndpoints : requests[i].pc = "settled"

\* the submission is over and one of its requests was aborted by its timer
C20_Witness ==
    /\ RaceOver
    /\ \E i \in allEndpoints : requests[i].timer = "fired"

\* C27 (as claimed): at every time after the handler has returned a 200
\* response with id X, the store holds a record whose id field is X, for
\* every interleaving of successful submissions, two with the same email
\* included.  Stated for the drafts that write the record.
C27_AcknowledgedIdStaysStored ==
    \A r \in Reqs :
        (variant \in EnvWorkers /\ SuccessfulSubmission(r)) =>
            \E k \in DOMAIN store : store[k].id = response[r].id

\* ------------------------------------------------- termination of the race
\* What the browser guarantees of a submission in flight: an armed abort
\* timer fires (line 316) and the continuation of Promise.allSettled runs
\* (line 412).  Nothing makes an endpoint answer or finish its body.
FairRaceSpec ==
    /\ RaceSpec
    /\ WF_vars(RaceSettles)
    /\ \A i \in allEndpoints : WF_vars(TimeoutAborts(i))

\* C25 (as claimed): every request that has received no response is aborted
\* once requestTimeout has elapsed, so racePatternSubmit eventually resolves
\* or throws for every submission, whatever the endpoints do.
C25_RaceEventuallySettles == (race = "waiting") ~> RaceOver

\* ---------------------------------------------------------------- debounce
\* the timer is armed with no delay at all
Remaining_none(timeSinceLastCall) == 0

\* `delay - timeSinceLastCall`, the delay handed to setTimeout
Remaining(timeSinceLastCall) == debounceDelay - timeSinceLastCall

\* func.apply(this, args) at Date.now(), with `lastCall` set just before;
\* `from` tells the call site: "call" (line 246) or "timer" (line 250)
Execute(from) ==
    /\ lastCall' = clock
    /\ executions' = Append(executions, [at |-> clock, from |-> from])

\* the debounced function is called: the pending timer is cleared, and func
\* runs at once or a new timer is armed for the rest of the delay.
ExecutedFunction ==
    /\ debounceCalls < MaxCalls
    /\ debounceCalls' = debounceCalls + 1
    /\ IF clock - lastCall >= debounceDelay
       THEN /\ Execute("call")
            /\ timeoutId' = NoTimer
       ELSE /\ timeoutId' = [armed |-> TRUE,
                             due |-> clock + Remaining(clock - lastCall)]
            /\ UNCHANGED <<lastCall, executions>>
    /\ UNCHANGED <<clock, workerVars, clientVars, formVars>>

\* the timer armed by the last call fires, at its due time or later.
DebounceTimerFires ==
    /\ timeoutId.armed
    /\ clock >= timeoutId.due
    /\ Execute("timer")
    /\ timeoutId' = NoTimer
    /\ UNCHANGED <<clock, debounceCalls, workerVars, clientVars,
                   formVars>>

\* time passes
TickSizes == {debounceDelay \div 4, debounceDelay \div 2, debounceDelay}

Tick(d) ==
    /\ clock + d <= debounceDelay * MaxDelays
    /\ clock' = clock + d
    /\ UNCHANGED <<lastCall, timeoutId, executions, debounceCalls,
                   workerVars, clientVars, formVars>>

DebounceNext ==
    \/ ExecutedFunction
    \/ DebounceTimerFires
    \/ \E d \in TickSizes : Tick(d)

\* the worker behind the endpoints plays no part here
DebounceStart == Init /\ variant = "config_example"

DebounceSpec == DebounceStart /\ [][DebounceNext]_vars

\* C22: for any sequence of calls of the function returned by
\* debounce(func, delay), any two consecutive executions of func are at
\* least `delay` milliseconds apart (timers never fire early).
C22_ExecutionsAtLeastDelayApart ==
    \A n \in 1..(Len(executions) - 1) :
        executions[n + 1].at - executions[n].at >= debounceDelay

\* func ran twice, the second time from the timer of a call that came too
\* soon after the first
C22_Witness ==
    /\ Len(executions) >= 2
    /\ executions[1].from = "call"
    /\ executions[2].from = "timer"
    /\ executions[2].at - executions[1].at = debounceDelay

\* -------------------------------------------------------- form validation
\* CONFIG.maxEmailLength
maxEmailLength == 254

\* what the user may have typed, and what a bot may have filled in
Honeypots == {<< >>, <<" ">>, <<"x">>}
FormEmails ==
    {Email("alice@example.com", TRUE, "example.com"),
     Email("bob@tempmail.com", TRUE, "tempmail.com"),
     Email("alice", FALSE, "")}
FormCompanies == {<< >>, <<" ", "A", " ">>, <<"A", "c">>}
Fields ==
    [honeypot : Honeypots, email : FormEmails, company : FormCompanies]

\* tokens the Turnstile widget may hand to its callback
TurnstileTokens ==
    {[prefix |-> "0.", length |-> 300], [prefix |-> "0.", length |-> 99]}

RECURSIVE trimStart(_)
trimStart(str) ==
    IF str # << >> /\ Head(str) = " " THEN trimStart(Tail(str)) ELSE str

RECURSIVE trimEnd(_)
trimEnd(str) ==
    IF str # << >> /\ str[Len(str)] = " "
    THEN trimEnd(SubSeq(str, 1, Len(str) - 1))
    ELSE str

\* String.prototype.trim
trim(str) == trimEnd(trimStart(str))

\* every honeypot counts as empty
isBot_never(honeypotValue) == FALSE

\* `honeypotValue && honeypotValue.trim().length > 0`
isBot(honeypotValue) ==
    honeypotValue # << >> /\ Len(trim(honeypotValue)) > 0

blockedDomains == {"tempmail.com", "throwaway.com", "guerrillamail.com"}

\* Security.validateEmail: non-empty, within the length limit, matching
\* emailRegex, and not of a blocked domain; the whitelist and the generic
\* domains that follow change nothing
validateEmail(email) ==
    /\ email.text # ""
    /\ Len(email.text) <= maxEmailLength
    /\ email.wellFormed
    /\ email.domain \notin blockedDomains

\* Security.validateTurnstileToken
validateTurnstileToken(token) ==
    /\ token # NoToken
    /\ token.length >= 100 /\ token.length <= 2000
    /\ token.prefix = "0."

\* `!company || company.trim().length < 2`
CompanyMissing(company) == company = << >> \/ Len(trim(company)) < 2

\* Security.validateForm(formData), reading window.turnstileToken
validateForm(data, token) ==
    IF isBot(data.honeypot)
    THEN [valid |-> FALSE, errors |-> <<"Bot detected">>, silent |-> TRUE]
    ELSE LET errors ==
                 (IF validateEmail(data.email) THEN << >>
                  ELSE <<"Invalid email address">>)
              \o (IF CompanyMissing(data.company)
                  THEN <<"Company name is required">> ELSE << >>)
              \o (IF validateTurnstileToken(token) THEN << >>
                  ELSE <<"Please complete the security verification">>)
         IN  [valid |-> errors = << >>, errors |-> errors,
              silent |-> Len(errors) = 1 /\ errors[1] = "Bot detected"]

\* ------------------------------------------------------------ UI controller
\* UI.showError(message): the message is put before the submit button
showError(ui, message) == [ui EXCEPT !.error = message]

\* `data.id && data.id !== 'NaN'`, and the same test of showSuccess
ValidId(id) == id # NoId /\ id # "NaN"

\* UI.showSuccess(referenceId), updateQueuePosition included
showSuccess(ui, referenceId) ==
    [ui EXCEPT !.formHidden = TRUE,
               !.successShown = TRUE,
               !.refId = IF ValidId(referenceId) THEN referenceId
                         ELSE "Processing...",
               !.queued = @ + 1]

\* generateReferenceId(): `req_<timestamp>_<random>`, the n-th one generated
generateReferenceId(n) == "req_" \o ToString(n)

\* --------------------------------------------------------- handleFormSubmit
\* how the request to endpoint i may end, as far as handleFormSubmit can
\* tell: it failed, it succeeded without an id in its data, or (a primary
\* only) it succeeded with the id the worker generated
Settlements(i) ==
    IF isFallback(i) THEN {"failed", "ok"} ELSE {"failed", "ok", "id"}

\* the value the async function of endpoint i returns in that case
SettledAs(v, i, settlement, id) ==
    IF settlement = "failed" THEN Failed(i, "Failed to fetch")
    ELSE IF settlement = "ok"
    THEN Fulfilled(i, Data(TRUE, FALSE, NoId, "", ""))
    ELSE Fulfilled(i, ParseData(Success(v, id), ""))

\* the `requests` of one racePatternSubmit call once all have settled
SettledRequests(v, id) ==
    {[i \in allEndpoints |->
         [NoFetch EXCEPT !.pc = "settled", !.sent = 1,
                         !.value = SettledAs(v, i, f[i], id)]] :
       f \in {g \in [allEndpoints -> {"failed", "ok", "id"}] :
                 \A i \in allEndpoints : g[i] \in Settlements(i)}}

\* the valid ids the primaries returned
ServerIds(reqs) ==
    {reqs[i].value.data.id :
        i \in {j \in allEndpoints :
                  /\ ~isFallback(j)
                  /\ reqs[j].value.success
                  /\ ValidId(reqs[j].value.data.id)}}

\* the worker behind the primaries: the drafts that answer 200 all answer
\* {success, id}, so one of them is enough
FormVariant == "config_example"

\* what handleFormSubmit sees of a settled race: whether racePatternSubmit
\* resolved or threw, `result.data.id`, and the ids the primaries returned
RaceResult(reqs) ==
    [state |-> RaceOutcome(reqs).state,
     id |-> RaceOutcome(reqs).value.data.id,
     serverIds |-> ServerIds(reqs)]

\* the ways the race of invocation k may end
RaceResults ==
    [k \in Submits |->
        {RaceResult(reqs) :
            reqs \in SettledRequests(FormVariant, randomUUID(k))}]

\* the catch block reports the failure to the user
HandlerCatch_showError(ui) ==
    showError(ui, "All endpoints unavailable. Please try again.")

\* lines 637-640: the catch block only logs
HandlerCatch(ui) == ui

\* the Turnstile widget hands over a token.
TurnstileCallback(token) ==
    /\ turnstileToken' = token
    /\ UNCHANGED <<UI, formData, submits, invocations,
                   workerVars, clientVars, debounceVars>>

\* the Turnstile widget reports an error.
TurnstileErrorCallback ==
    /\ UI' = showError(UI,
               "Security verification failed. Please refresh the page.")
    /\ UNCHANGED <<turnstileToken, formData, submits, invocations,
                   workerVars, clientVars, debounceVars>>

\* the timer of showError removes the message after five seconds.
ErrorExpires ==
    /\ UI.error # ""
    /\ UI' = [UI EXCEPT !.error = ""]
    /\ UNCHANGED <<turnstileToken, formData, submits, invocations,
                   workerVars, clientVars, debounceVars>>

\* handleFormSubmit(event) runs with `data` in the form, up to its return
\* or to `await racePatternSubmit(payload)`, which sends one request to
\* every endpoint.
HandleFormSubmit(data) ==
    /\ invocations < MaxSubmits
    /\ invocations' = invocations + 1
    /\ formData' = data
    /\ LET k == invocations + 1
           validation == validateForm(data, turnstileToken)
       IN  IF UI.isSubmitting
           THEN /\ submits' = [submits EXCEPT ![k].pc = "busy"]
                /\ UNCHANGED UI
           ELSE IF ~validation.valid
           THEN IF validation.silent
                THEN /\ submits' = [submits EXCEPT ![k].pc = "silent"]
                     /\ UNCHANGED UI
                ELSE /\ submits' = [submits EXCEPT ![k].pc = "invalid"]
                     /\ UI' = showError(UI, validation.errors[1])
           ELSE /\ submits' = [submits EXCEPT ![k] =
                     [NoSubmit EXCEPT !.pc = "racing",
                         !.referenceId = generateReferenceId(k),
                         !.timer = "armed",
                         !.sent = Cardinality(allEndpoints)]]
                /\ UNCHANGED UI
    /\ UNCHANGED <<turnstileToken, workerVars, clientVars, debounceVars>>

\* CONFIG.optimisticDelay has elapsed: UI.showSuccess(referenceId).
OptimisticTimerFires(k) ==
    /\ submits[k].timer = "armed"
    /\ UI' = showSuccess(UI, submits[k].referenceId)
    /\ submits' = [submits EXCEPT ![k].timer = "fired"]
    /\ UNCHANGED <<turnstileToken, formData, invocations,
                   workerVars, clientVars, debounceVars>>

\* racePatternSubmit resolves: the id of the result, if valid, is written
\* to the reference display.
RaceReturns(k) ==
    /\ submits[k].pc = "racing"
    /\ \E result \in RaceResults[k] :
         /\ result.state = "resolved"
         /\ UI' = IF ValidId(result.id)
                  THEN [UI EXCEPT !.refId = result.id]
                  ELSE UI
         /\ submits' = [submits EXCEPT ![k].pc = "done",
                           ![k].outcome = "resolved",
                           ![k].resultId = result.id,
                           ![k].serverIds = result.serverIds]
    /\ UNCHANGED <<turnstileToken, formData, invocations,
                   workerVars, clientVars, debounceVars>>

\* racePatternSubmit throws: every endpoint failed.
RaceThrows(k) ==
    /\ submits[k].pc = "racing"
    /\ \E result \in RaceResults[k] :
         /\ result.state = "rejected"
         /\ UI' = HandlerCatch(UI)
         /\ submits' = [submits EXCEPT ![k].pc = "done",
                           ![k].outcome = "rejected",
                           ![k].serverIds = result.serverIds]
    /\ UNCHANGED <<turnstileToken, formData, invocations,
                   workerVars, clientVars, debounceVars>>

FormNext ==
    \/ \E token \in TurnstileTokens : TurnstileCallback(token)
    \/ TurnstileErrorCallback
    \/ ErrorExpires
    \/ \E data \in Fields : HandleFormSubmit(data)
    \/ \E k \in Submits :
          \/ OptimisticTimerFires(k)
          \/ RaceReturns(k)
          \/ RaceThrows(k)

FormStart == Init /\ variant = FormVariant

FormSpec == FormStart /\ [][FormNext]_vars

\* -------------------------------------------------- vocabulary of the form
\* the step is an invocation of handleFormSubmit
Invoked == invocations' = invocations + 1

\* the invocation of this step sent requests / sent none
SendsRequests == submits'[invocations'].sent > 0
SendsNothing == submits'[invocations'].sent = 0

\* a submission is in flight: its racePatternSubmit has not settled
InFlight == \E k \in Submits : submits[k].pc = "racing"

\* C21 (as claimed): while a submission started by handleFormSubmit is
\* still in flight, a second invocation of handleFormSubmit returns without
\* sending any request.
C21_SecondInvocationSendsNothing ==
    [][(Invoked /\ InFlight) => SendsNothing]_vars

\* invocation k passed validation and submitted
Passed(k) == submits[k].pc \in {"racing", "done"}

\* nothing of submission k is left to happen: its race has settled and its
\* optimistic timer has fired
Finished(k) == submits[k].pc = "done" /\ submits[k].timer = "fired"

\* k is the only submission of the behaviour so far
OnlySubmission(k) == \A j \in Submits : j # k => ~Passed(j)

\* C23 (as claimed): whenever a primary endpoint returns a valid
\* server-generated id for a submission, the reference id finally displayed
\* is that server id, for every ordering of the optimistic showSuccess timer
\* and the arrival of the server response.  Stated for the id that
\* racePatternSubmit resolved with, the one line 630 displays.
C23_ServerIdFinallyDisplayed ==
    \A k \in Submits :
        (/\ Finished(k)
         /\ OnlySubmission(k)
         /\ submits[k].resultId \in submits[k].serverIds) =>
            UI.refId = submits[k].resultId

\* the conditions of validateForm as the claim words them, read off the
\* form and the token as they are when handleFormSubmit runs
HoneypotEmpty == formData'.honeypot = << >>
HoneypotBlank ==
    \A n \in DOMAIN formData'.honeypot : formData'.honeypot[n] = " "
RestValid ==
    /\ validateEmail(formData'.email)
    /\ Len(SelectSeq(formData'.company, LAMBDA c : c # " ")) >= 2
    /\ validateTurnstileToken(turnstileToken)

\* the invocation of this step armed the optimistic showSuccess timer
ArmsSuccess == submits'[invocations'].timer # "none"

\* neither requests nor the success state come of this step
NothingSentOrShown ==
    /\ SendsNothing
    /\ ~ArmsSuccess
    /\ UI'.successShown = UI.successShown

FairFormSpec ==
    /\ FormSpec
    /\ \A k \in Submits : WF_vars(OptimisticTimerFires(k))

\* the step ends the racePatternSubmit of a submission
RaceEnds ==
    \E k \in Submits : submits[k].pc = "racing" /\ submits'[k].pc = "done"

\* C26: after a submission passes validation, the success state is shown
\* once the optimistic delay elapses, without waiting for any endpoint
\* response, and it stays shown with no error displayed even if every
\* endpoint request fails.
C26_OptimisticSuccessShownAndKept ==
    /\ \A k \in Submits : (submits[k].timer = "armed") ~> UI.successShown
    /\ [](\A k \in Submits :
            /\ Passed(k) => submits[k].timer # "none"
            /\ submits[k].timer = "fired" => UI.successShown)
    /\ [][/\ UI.successShown => UI'.successShown /\ UI'.formHidden
          /\ RaceEnds => /\ UI'.error = UI.error
                         /\ UI'.successShown = UI.successShown]_vars

\* the success state is on display, with no error, for a submission all of
\* whose endpoint requests failed
C26_Witness ==
    \E k \in Submits :
        /\ submits[k].outcome = "rejected"
        /\ submits[k].timer = "fired"
        /\ UI.successShown
        /\ UI.error = ""

\* The race of handleFormSubmit is summarised by Settlements: every value a
\* request of racePatternSubmit settles with agrees, in `success` and in
\* `data.id`, with one of the settlements of its endpoint.  (An invariant of
\* RaceSpec.)
SettlementsCoverRace ==
    \A i \in allEndpoints :
        requests[i].pc = "settled" =>
            \E settlement \in Settlements(i) :
                LET value == SettledAs(variant, i, settlement, randomUUID(1))
                IN  /\ value.success = requests[i].value.success
                    /\ value.data.id = requests[i].value.data.id

====
